---- MODULE Spec2Model ----
(***************************************************************************)
(* Model of the prolog_service gateway (src/src/main.rs): the tokio        *)
(* semaphore built in main, the warp /query and /health routes, the       *)
(* handle_query flow of each request, the spawn_blocking task that runs   *)
(* run_query, and the graceful shutdown of main.                          *)
(***************************************************************************)
EXTENDS Integers, Sequences, FiniteSets, TLC

\* Bounds of the model.
MaxRequests == 3
MaxClients == 2
MaxBudget == 2
MaxHealth == 1
MaxDepth == 2
MaxOutcomes == 2

Requests == 1..MaxRequests

\* The requests that arrive when the whole service is explored.
Clients == 1..MaxClients

VARIABLES
    mainPc,        \* position of main: bind, serve, drain, returned, rtdrop, exited
    listening,     \* the listener accepts new connections
    num_threads,   \* the budget N handed to Semaphore::new
    permits,       \* permits available in the semaphore
    closed,        \* the semaphore is closed
    waiters,       \* the semaphore's FIFO queue of suspended acquire_owned calls
    flow,          \* position of each request's handler flow
    task,          \* state of each request's spawn_blocking task (run_query)
    response,      \* body sent to the client of each request
    healthReplies, \* number of {status: ok} replies of GET /health
    healthUnderLoad, \* some /health reply was given with no permit free and a query waiting
    sigPhase,      \* what each request was doing when the termination signal arrived
    path,          \* how each flow got past acquire_owned, or where it was dropped
    machine,       \* the scryer Machine built by each run_query invocation (0: none yet)
    term,          \* first Term handed to term_to_json
    other,         \* second Term handed to term_to_json
    encoded,       \* the JSON values term_to_json returned for term and other
    outcomes,      \* the answers the query iterator of run_query yields
    consumed,      \* the answers the iterator has yielded so far
    results,       \* the results vector of run_query
    runPc          \* position of run_query: idle, loop, returned

\* The variables of the codec and of the body of run_query.
codecVars == <<term, other, encoded, outcomes, consumed, results, runPc>>

vars == <<mainPc, listening, num_threads, permits, closed, waiters, flow, task,
          response, healthReplies, healthUnderLoad, sigPhase, path, machine,
          codecVars>>

FlowStates == {"none", "receiving", "waiting", "holding", "joining",
               "replied", "dropped", "panicked"}
TaskStates == {"none", "queued", "running", "returned", "panicked", "cancelled"}
Bodies == {"none", "results", "error"}

Paths == {"none", "fast", "queued", "queued_behind", "closed", "drop_receiving", "drop_waiting",
          "drop_holding", "drop_joining"}
SignalPhases == {"none", "receiving", "acquiring", "evaluating", "finishing", "over"}

\* Handler flows that still exist (their connection is open).
OpenFlows == {"receiving", "waiting", "holding", "joining"}

\* Handler flows that own an OwnedSemaphorePermit (_permit is alive).
PermitFlows == {"holding", "joining"}

TypeOK ==
    /\ mainPc \in {"bind", "serve", "drain", "returned", "rtdrop", "exited"}
    /\ listening \in BOOLEAN
    /\ num_threads \in 1..MaxBudget
    /\ permits \in 0..num_threads
    /\ closed \in BOOLEAN
    /\ waiters \in Seq(Requests)
    /\ flow \in [Requests -> FlowStates]
    /\ task \in [Requests -> TaskStates]
    /\ response \in [Requests -> Bodies]
    /\ healthReplies \in 0..MaxHealth
    /\ healthUnderLoad \in BOOLEAN
    /\ sigPhase \in [Requests -> SignalPhases]
    /\ path \in [Requests -> Paths]
    /\ machine \in [Requests -> 0..MaxRequests]
    /\ runPc \in {"idle", "loop", "returned"}
    /\ Len(consumed) <= Len(outcomes)
    /\ Len(encoded) \in {0, 2}

\* The lifecycle state of the service, read off the position of main.
Lifecycle ==
    CASE mainPc = "bind" -> "Starting"
      [] mainPc = "serve" -> "Accepting"
      [] mainPc \in {"drain", "returned", "rtdrop"} -> "Draining"
      [] OTHER -> "Stopped"

\* A Term: its variant k, its text v (digits, name, characters) and its
\* elements or arguments a.
MkTerm(k, v, a) == [k |-> k, v |-> v, a |-> a]

\* No Term at all.
NoTerm == MkTerm("none", "", <<>>)

\* Start of main: num_threads is what available_parallelism reports, the
\* semaphore holds num_threads permits, nothing is bound yet.
ServiceInit(c) ==
    /\ mainPc = "bind"
    /\ listening = FALSE
    /\ num_threads \in 1..MaxBudget
    /\ permits = num_threads
    /\ closed = c
    /\ waiters = <<>>
    /\ flow = [r \in Requests |-> "none"]
    /\ task = [r \in Requests |-> "none"]
    /\ response = [r \in Requests |-> "none"]
    /\ healthReplies = 0
    /\ healthUnderLoad = FALSE
    /\ sigPhase = [r \in Requests |-> "none"]
    /\ path = [r \in Requests |-> "none"]
    /\ machine = [r \in Requests |-> 0]

\* The codec and run_query are not under test.
CodecIdle ==
    /\ term = NoTerm
    /\ other = NoTerm
    /\ encoded = <<>>
    /\ outcomes = <<>>
    /\ consumed = <<>>
    /\ results = <<>>
    /\ runPc = "idle"

InitWith(c) == ServiceInit(c) /\ CodecIdle

Init == InitWith(FALSE)

\* handle_query handed a semaphore that may already be closed.
InitClosed == \E c \in BOOLEAN : InitWith(c)

\* What a request with handler flow f and blocking task t is doing.
PhaseOf(f, t) ==
    CASE f = "none" -> "none"
      [] f = "receiving" -> "receiving"
      [] f \in {"waiting", "holding"} -> "acquiring"
      [] f = "joining" /\ t \in {"queued", "running"} -> "evaluating"
      [] f = "joining" -> "finishing"
      [] OTHER -> "over"

\* The state of the semaphore and of the flows it wakes.
Sem(p, w, f) == [permits |-> p, waiters |-> w, flow |-> f]

\* A queue that keeps the entry of a dropped acquire.
RemoveNothing(s, r) == s

\* The sequence s without the element r.
Remove(s, r) == SelectSeq(s, LAMBDA x : x # r)

\* A release that returns the permit to the pool and wakes nobody.
ReleaseNoWake(s) == [s EXCEPT !.permits = @ + 1]

\* A release that wakes the waiter that queued last.
ReleasePermitLifo(s) ==
    IF s.waiters = <<>>
    THEN [s EXCEPT !.permits = @ + 1]
    ELSE [s EXCEPT !.waiters = SubSeq(@, 1, Len(@) - 1),
                   !.flow[s.waiters[Len(s.waiters)]] = "holding"]

\* Dropping the permit without returning it to the semaphore.
LeakPermit(s) == s

\* Drop of the OwnedSemaphorePermit bound to _permit: the permit goes to the
\* first queued waiter, whose acquire_owned completes, or back to the pool.
ReleasePermit(s) ==
    IF s.waiters = <<>>
    THEN [s EXCEPT !.permits = @ + 1]
    ELSE [s EXCEPT !.waiters = Tail(@), !.flow[Head(s.waiters)] = "holding"]

\* An acquisition that never looks at the number of permits.
PermitAvailableAlways(p) == TRUE

\* acquire_owned takes a permit at once when one is available.
PermitAvailable(p) == p > 0

\* What awaiting the JoinHandle yields for a finished blocking task:
\* run_query only ever returns Ok(results); a panic or a cancelled task is a JoinError.
JoinResult(t) ==
    CASE t = "returned" -> "ok_ok"
      [] t = "panicked" -> "join_err"
      [] t = "cancelled" -> "join_err"

\* A handler that resumes the panic of the blocking task instead of replying.
HandleJoinPropagate(res) ==
    CASE res = "ok_ok" -> [flow |-> "replied", response |-> "results"]
      [] res = "ok_err" -> [flow |-> "replied", response |-> "error"]
      [] res = "join_err" -> [flow |-> "panicked", response |-> "none"]

\* The match on the join result: every arm is an Ok reply.
HandleJoin(res) ==
    CASE res = "ok_ok" -> [flow |-> "replied", response |-> "results"]
      [] res = "ok_err" -> [flow |-> "replied", response |-> "error"]
      [] res = "join_err" -> [flow |-> "replied", response |-> "error"]

\* A server future that completes without waiting for its connections.
ConnectionsDrainedNoWait == TRUE

\* Every connection with a request in flight has finished.
ConnectionsDrained == \A r \in Requests : flow[r] \notin OpenFlows

\* A runtime that is dropped without joining its blocking threads.
BlockingIdleNoWait == TRUE

\* No thread of the blocking pool is running a task.
BlockingIdle == \A r \in Requests : task[r] # "running"

\* A listener that keeps accepting after the termination signal.
AcceptsAlways == TRUE

\* The server accepts a new connection.
Accepts == listening

\* bind_with_graceful_shutdown, server.await: the listener is bound.
Bind ==
    /\ mainPc = "bind"
    /\ mainPc' = "serve"
    /\ listening' = TRUE
    /\ UNCHANGED <<num_threads, permits, closed, waiters, flow, task, response,
                   healthReplies, healthUnderLoad, sigPhase,
                   path, machine, codecVars>>

\* A /health route that takes a permit for the reply.
HealthTakesPermit ==
    /\ mainPc = "serve"
    /\ healthReplies < MaxHealth
    /\ permits > 0
    /\ permits' = permits - 1
    /\ healthReplies' = healthReplies + 1
    /\ healthUnderLoad' = healthUnderLoad
    /\ UNCHANGED <<mainPc, listening, num_threads, closed, waiters, flow,
                   task, response, sigPhase,
                   path, machine, codecVars>>

\* GET /health: replies {status: ok}; the route has no semaphore filter.
Health ==
    /\ mainPc = "serve"
    /\ healthReplies < MaxHealth
    /\ healthReplies' = healthReplies + 1
    /\ healthUnderLoad' = (healthUnderLoad \/ (permits = 0 /\ waiters # <<>>))
    /\ UNCHANGED <<mainPc, listening, num_threads, permits, closed, waiters, flow,
                   task, response, sigPhase,
                   path, machine, codecVars>>

\* A POST /query connection is accepted and its JSON body is being read.
\* Requests are numbered in their order of arrival.
Arrive(r) ==
    /\ mainPc \in {"serve", "drain"}
    /\ Accepts
    /\ flow[r] = "none"
    /\ \A q \in Requests : q < r => flow[q] # "none"
    /\ flow' = [flow EXCEPT ![r] = "receiving"]
    /\ UNCHANGED <<mainPc, listening, num_threads, permits, closed, waiters, task,
                   response, healthReplies, healthUnderLoad, sigPhase,
                   path, machine, codecVars>>

\* handle_query starts: semaphore.acquire_owned().await.unwrap().
\* A closed semaphore yields Err and unwrap panics; otherwise the flow takes a
\* permit or joins the queue of waiters.
BeginAcquire(r) ==
    /\ flow[r] = "receiving"
    /\ IF closed
       THEN /\ flow' = [flow EXCEPT ![r] = "panicked"]
            /\ path' = [path EXCEPT ![r] = "closed"]
            /\ UNCHANGED <<permits, waiters>>
       ELSE IF PermitAvailable(permits)
       THEN /\ permits' = permits - 1
            /\ flow' = [flow EXCEPT ![r] = "holding"]
            /\ path' = [path EXCEPT ![r] = "fast"]
            /\ UNCHANGED waiters
       ELSE /\ waiters' = Append(waiters, r)
            /\ flow' = [flow EXCEPT ![r] = "waiting"]
            /\ path' = [path EXCEPT ![r] = IF waiters = <<>> THEN "queued"
                                            ELSE "queued_behind"]
            /\ UNCHANGED permits
    /\ UNCHANGED <<mainPc, listening, num_threads, closed, task, response,
                   healthReplies, healthUnderLoad, sigPhase,
                   machine, codecVars>>

\* spawn_blocking(run_query): the task is queued on the blocking pool and the
\* flow awaits its JoinHandle.
Spawn(r) ==
    /\ flow[r] = "holding"
    /\ flow' = [flow EXCEPT ![r] = "joining"]
    /\ task' = [task EXCEPT ![r] = "queued"]
    /\ UNCHANGED <<mainPc, listening, num_threads, permits, closed, waiters,
                   response, healthReplies, healthUnderLoad, sigPhase,
                   path, machine, codecVars>>

\* A Machine taken from a pool of one.
PooledMachine(m) == 1

\* MachineBuilder::new().with_streams(streams).build(): a Machine that did
\* not exist before, owned by the local variable of this invocation.
BuildMachine(m) == Cardinality({q \in DOMAIN m : m[q] # 0}) + 1

\* A thread of the blocking pool starts run_query, which builds its Machine.
EvalStart(r) ==
    /\ task[r] = "queued"
    /\ mainPc \notin {"rtdrop", "exited"}
    /\ task' = [task EXCEPT ![r] = "running"]
    /\ machine' = [machine EXCEPT ![r] = BuildMachine(machine)]
    /\ UNCHANGED <<mainPc, listening, num_threads, permits, closed, waiters, flow,
                   response, healthReplies, healthUnderLoad, sigPhase,
                   path, codecVars>>

\* run_query drains the outcome sequence and returns Ok(results).
EvalReturn(r) ==
    /\ task[r] = "running"
    /\ task' = [task EXCEPT ![r] = "returned"]
    /\ UNCHANGED <<mainPc, listening, num_threads, permits, closed, waiters, flow,
                   response, healthReplies, healthUnderLoad, sigPhase,
                   path, machine, codecVars>>

\* A panic that aborts the process and with it every evaluation.
EvalPanicAbort(r) ==
    /\ task[r] = "running"
    /\ task' = [q \in Requests |-> IF task[q] = "running" THEN "panicked" ELSE task[q]]
    /\ mainPc' = "exited"
    /\ UNCHANGED <<listening, num_threads, permits, closed, waiters, flow,
                   response, healthReplies, healthUnderLoad, sigPhase,
                   path, machine, codecVars>>

\* run_query panics on its blocking thread.
EvalPanic(r) ==
    /\ task[r] = "running"
    /\ task' = [task EXCEPT ![r] = "panicked"]
    /\ UNCHANGED <<mainPc, listening, num_threads, permits, closed, waiters, flow,
                   response, healthReplies, healthUnderLoad, sigPhase,
                   path, machine, codecVars>>

\* The JoinHandle resolves: the match builds the reply, handle_query returns
\* and _permit is dropped.
Reply(r) ==
    /\ flow[r] = "joining"
    /\ task[r] \in {"returned", "panicked", "cancelled"}
    /\ LET out == HandleJoin(JoinResult(task[r]))
           s == ReleasePermit(Sem(permits, waiters, [flow EXCEPT ![r] = out.flow]))
       IN /\ permits' = s.permits
          /\ waiters' = s.waiters
          /\ flow' = s.flow
          /\ response' = [response EXCEPT ![r] = out.response]
    /\ UNCHANGED <<mainPc, listening, num_threads, closed, task,
                   healthReplies, healthUnderLoad, sigPhase,
                   path, machine, codecVars>>

\* The mark left in path by a flow dropped in state f.
DropMark(f) ==
    CASE f = "receiving" -> "drop_receiving"
      [] f = "waiting" -> "drop_waiting"
      [] f = "holding" -> "drop_holding"
      [] OTHER -> "drop_joining"

\* A disconnect that also aborts the evaluation of the request.
DisconnectAborts(r) ==
    /\ mainPc \in {"serve", "drain"}
    /\ flow[r] \in OpenFlows
    /\ LET f == [flow EXCEPT ![r] = "dropped"]
           s == IF flow[r] \in PermitFlows
                THEN ReleasePermit(Sem(permits, waiters, f))
                ELSE Sem(permits, Remove(waiters, r), f)
       IN /\ permits' = s.permits
          /\ waiters' = s.waiters
          /\ flow' = s.flow
    /\ path' = [path EXCEPT ![r] = DropMark(flow[r])]
    /\ task' = [task EXCEPT ![r] = IF @ \in {"queued", "running"} THEN "cancelled" ELSE @]
    /\ UNCHANGED <<mainPc, listening, num_threads, closed, response,
                   healthReplies, healthUnderLoad, sigPhase,
                   machine, codecVars>>

\* The client disconnects: the connection drops the request's flow. A queued
\* acquire leaves the queue, a held _permit is dropped, and the dropped
\* JoinHandle detaches the blocking task, which goes on.
Disconnect(r) ==
    /\ mainPc \in {"serve", "drain"}
    /\ flow[r] \in OpenFlows
    /\ LET f == [flow EXCEPT ![r] = "dropped"]
           s == IF flow[r] \in PermitFlows
                THEN ReleasePermit(Sem(permits, waiters, f))
                ELSE Sem(permits, Remove(waiters, r), f)
       IN /\ permits' = s.permits
          /\ waiters' = s.waiters
          /\ flow' = s.flow
    /\ path' = [path EXCEPT ![r] = DropMark(flow[r])]
    /\ UNCHANGED <<mainPc, listening, num_threads, closed, task, response,
                   healthReplies, healthUnderLoad, sigPhase,
                   machine, codecVars>>

\* A signal future that is polled only while no evaluation is running, as
\* when run_query runs on the threads that drive the server.
SignalWhenIdle ==
    /\ mainPc = "serve"
    /\ BlockingIdle
    /\ mainPc' = "drain"
    /\ listening' = FALSE
    /\ sigPhase' = [r \in Requests |-> PhaseOf(flow[r], task[r])]
    /\ UNCHANGED <<num_threads, permits, closed, waiters, flow, task, response,
                   healthReplies, healthUnderLoad, path, machine, codecVars>>

\* ctrl_c resolves: the graceful shutdown closes the listener.
Signal ==
    /\ mainPc = "serve"
    /\ mainPc' = "drain"
    /\ listening' = FALSE
    /\ sigPhase' = [r \in Requests |-> PhaseOf(flow[r], task[r])]
    /\ UNCHANGED <<num_threads, permits, closed, waiters, flow, task, response,
                   healthReplies, healthUnderLoad, path, machine, codecVars>>

\* server.await returns once every connection has finished.
ServerDone ==
    /\ mainPc = "drain"
    /\ ConnectionsDrained
    /\ mainPc' = "returned"
    /\ UNCHANGED <<listening, num_threads, permits, closed, waiters, flow, task,
                   response, healthReplies, healthUnderLoad, sigPhase,
                   path, machine, codecVars>>

\* main returns and the runtime of #[tokio::main] is dropped: the blocking
\* pool shuts down and the tasks still queued on it are cancelled.
RuntimeShutdown ==
    /\ mainPc = "returned"
    /\ mainPc' = "rtdrop"
    /\ task' = [r \in Requests |-> IF task[r] = "queued" THEN "cancelled" ELSE task[r]]
    /\ UNCHANGED <<listening, num_threads, permits, closed, waiters, flow,
                   response, healthReplies, healthUnderLoad, sigPhase,
                   path, machine, codecVars>>

\* The drop of the runtime joins the blocking threads; then the process ends.
ProcessExit ==
    /\ mainPc = "rtdrop"
    /\ BlockingIdle
    /\ mainPc' = "exited"
    /\ UNCHANGED <<listening, num_threads, permits, closed, waiters, flow, task,
                   response, healthReplies, healthUnderLoad, sigPhase,
                   path, machine, codecVars>>

Next ==
    \/ Bind
    \/ Health
    \/ Signal
    \/ ServerDone
    \/ RuntimeShutdown
    \/ ProcessExit
    \/ \E r \in Clients : Arrive(r)
    \/ \E r \in Requests : BeginAcquire(r)
    \/ \E r \in Requests : Spawn(r)
    \/ \E r \in Requests : EvalStart(r)
    \/ \E r \in Requests : EvalReturn(r)
    \/ \E r \in Requests : EvalPanic(r)
    \/ \E r \in Requests : Reply(r)
    \/ \E r \in Requests : Disconnect(r)

Spec == Init /\ [][Next]_vars

\* The same service around a semaphore that may be closed from the start.
SpecClosed == InitClosed /\ [][Next]_vars

\* The service while it accepts, with every request of Requests arriving:
\* the steps of the requests without /health and without the shutdown.
NextQueue ==
    \/ Bind
    \/ \E r \in Requests : Arrive(r)
    \/ \E r \in Requests : BeginAcquire(r)
    \/ \E r \in Requests : Spawn(r)
    \/ \E r \in Requests : EvalStart(r)
    \/ \E r \in Requests : EvalReturn(r)
    \/ \E r \in Requests : EvalPanic(r)
    \/ \E r \in Requests : Reply(r)
    \/ \E r \in Requests : Disconnect(r)

SpecQueue == Init /\ [][NextQueue]_vars

\* The service while it accepts, with the requests of Clients, under fair
\* scheduling: the runtime polls a flow that can go on, the blocking pool
\* starts a queued task, and every evaluation that has started terminates.
\* Nothing obliges a client to arrive or to disconnect.
NextFair ==
    \/ Bind
    \/ \E r \in Clients : Arrive(r)
    \/ \E r \in Clients : BeginAcquire(r)
    \/ \E r \in Clients : Spawn(r)
    \/ \E r \in Clients : EvalStart(r)
    \/ \E r \in Clients : EvalReturn(r)
    \/ \E r \in Clients : EvalPanic(r)
    \/ \E r \in Clients : Reply(r)
    \/ \E r \in Clients : Disconnect(r)

Fairness ==
    \A r \in Clients :
        /\ WF_vars(BeginAcquire(r))
        /\ WF_vars(Spawn(r))
        /\ WF_vars(EvalStart(r))
        /\ WF_vars(EvalReturn(r) \/ EvalPanic(r))
        /\ WF_vars(Reply(r))

SpecFair == Init /\ [][NextFair]_vars /\ Fairness

\* ---- The Term codec and the body of run_query ----

\* A JSON value is the sequence of the tokens of its serialisation; a token
\* is a pair <<kind, text>>.
JStr(x) == << <<"str", x>> >>
JNum(x) == << <<"num", x>> >>
JNull == << <<"null", "">> >>
JBool(b) == << <<"bool", IF b THEN "true" ELSE "false">> >>

RECURSIVE Flatten(_)
\* The concatenation of a sequence of sequences.
Flatten(ss) == IF ss = <<>> THEN <<>> ELSE Head(ss) \o Flatten(Tail(ss))

\* A JSON array of the values items, in their order.
JArr(items) == << <<"[", "">> >> \o Flatten(items) \o << <<"]", "">> >>

\* A JSON object of the members <<key, value>>, in their order.
JObj(members) ==
    << <<"{", "">> >>
        \o Flatten([i \in 1..Len(members) |->
                      << <<"key", members[i][1]>> >> \o members[i][2]])
        \o << <<"}", "">> >>

\* The text of the floats that are not finite.
NonFinite == {"NaN", "inf", "-inf"}

\* json!(f) for an f64: a JSON number, or null when f is not finite.
JFloat(x) == IF x \in NonFinite THEN JNull ELSE JNum(x)

RECURSIVE term_to_json_reversed(_)
\* An encoder that collects the elements of a list back to front.
term_to_json_reversed(t) ==
    CASE t.k = "Integer" -> JStr(t.v)
      [] t.k = "Rational" -> JStr(t.v)
      [] t.k = "Float" -> JFloat(t.v)
      [] t.k = "Atom" -> JStr(t.v)
      [] t.k = "String" -> JStr(t.v)
      [] t.k = "List" ->
            JArr([i \in 1..Len(t.a) |-> term_to_json_reversed(t.a[Len(t.a) + 1 - i])])
      [] t.k = "Compound" ->
            JObj(<< <<"args", JArr([i \in 1..Len(t.a) |-> term_to_json_reversed(t.a[i])])>>,
                    <<"functor", JStr(t.v)>> >>)
      [] t.k = "Var" -> JObj(<< <<"var", JStr(t.v)>> >>)
      [] OTHER -> JStr(t.v)

RECURSIVE term_to_json_flat(_)
\* An encoder that renders a compound as the array of its arguments.
term_to_json_flat(t) ==
    CASE t.k = "Integer" -> JStr(t.v)
      [] t.k = "Rational" -> JStr(t.v)
      [] t.k = "Float" -> JFloat(t.v)
      [] t.k = "Atom" -> JStr(t.v)
      [] t.k = "String" -> JStr(t.v)
      [] t.k = "List" -> JArr([i \in 1..Len(t.a) |-> term_to_json_flat(t.a[i])])
      [] t.k = "Compound" -> JArr([i \in 1..Len(t.a) |-> term_to_json_flat(t.a[i])])
      [] t.k = "Var" -> JObj(<< <<"var", JStr(t.v)>> >>)
      [] OTHER -> JStr(t.v)

RECURSIVE term_to_json(_)
\* term_to_json: the match on the variant of the Term. The members of a
\* json! object are kept in the order of their keys; the last arm renders
\* any other variant with {:?}, which is the text v of the Term here.
term_to_json(t) ==
    CASE t.k = "Integer" -> JStr(t.v)
      [] t.k = "Rational" -> JStr(t.v)
      [] t.k = "Float" -> JFloat(t.v)
      [] t.k = "Atom" -> JStr(t.v)
      [] t.k = "String" -> JStr(t.v)
      [] t.k = "List" -> JArr([i \in 1..Len(t.a) |-> term_to_json(t.a[i])])
      [] t.k = "Compound" ->
            JObj(<< <<"args", JArr([i \in 1..Len(t.a) |-> term_to_json(t.a[i])])>>,
                    <<"functor", JStr(t.v)>> >>)
      [] t.k = "Var" -> JObj(<< <<"var", JStr(t.v)>> >>)
      [] OTHER -> JStr(t.v)

\* convert_bindings_to_json: the bindings, a BTreeMap iterated in the order
\* of its keys, become an object of the encoded values under the same keys.
convert_bindings_to_json(bindings) ==
    JObj([i \in 1..Len(bindings) |-> <<bindings[i].n, term_to_json(bindings[i].t)>>])

\* An answer of the query iterator: its variant k, the Term t of an
\* exception, the bindings b of a leaf answer, the text e of an error.
MkAnswer(k, t, b, e) == [k |-> k, t |-> t, b |-> b, e |-> e]

\* A loop body that gives up the entry of an engine error.
answer_to_json_skip_err(answer) ==
    CASE answer.k = "True" -> << JObj(<< <<"result", JBool(TRUE)>> >>) >>
      [] answer.k = "False" -> << JObj(<< <<"result", JBool(FALSE)>> >>) >>
      [] answer.k = "Exception" -> << JObj(<< <<"exception", term_to_json(answer.t)>> >>) >>
      [] answer.k = "LeafAnswer" -> << convert_bindings_to_json(answer.b) >>
      [] OTHER -> <<>>

\* The match of the loop of run_query: the entries pushed for one answer.
answer_to_json(answer) ==
    CASE answer.k = "True" -> << JObj(<< <<"result", JBool(TRUE)>> >>) >>
      [] answer.k = "False" -> << JObj(<< <<"result", JBool(FALSE)>> >>) >>
      [] answer.k = "Exception" -> << JObj(<< <<"exception", term_to_json(answer.t)>> >>) >>
      [] answer.k = "LeafAnswer" -> << convert_bindings_to_json(answer.b) >>
      [] OTHER -> << JObj(<< <<"error", JStr(answer.e)>> >>) >>

\* The Terms without elements: one of every variant, two spellings of the
\* same text, and floats that are not finite.
Leaves ==
    {MkTerm("Integer", "7", <<>>), MkTerm("Rational", "1/2", <<>>),
     MkTerm("Float", "1.5", <<>>), MkTerm("Float", "NaN", <<>>),
     MkTerm("Float", "inf", <<>>), MkTerm("Atom", "a", <<>>),
     MkTerm("String", "a", <<>>), MkTerm("Var", "X", <<>>),
     MkTerm("Future", "Future(..)", <<>>)}

\* The Terms that stand next to a nested Term in a list of two.
Siblings == {MkTerm("Atom", "a", <<>>), MkTerm("Integer", "7", <<>>)}

\* The element lists built around the Terms of T.
ArgLists(T) ==
    {<<t>> : t \in T}
        \cup {<<t, s>> : t \in T, s \in Siblings}
        \cup {<<s, t>> : t \in T, s \in Siblings}

RECURSIVE TermsOf(_)
\* The Terms of depth d at most.
TermsOf(d) ==
    IF d = 0 THEN Leaves
    ELSE LET T == TermsOf(d - 1)
         IN Leaves \cup {MkTerm("List", "", <<>>)}
                \cup {MkTerm("List", "", a) : a \in ArgLists(T)}
                \cup {MkTerm("Compound", "f", a) : a \in ArgLists(T)}

\* The Terms the second input is drawn from.
ShallowTerms == TermsOf(1)

\* The answers the engine is let to yield.
Answers ==
    {MkAnswer("True", NoTerm, <<>>, ""),
     MkAnswer("False", NoTerm, <<>>, ""),
     MkAnswer("Exception", MkTerm("Atom", "my_error", <<>>), <<>>, ""),
     MkAnswer("LeafAnswer", NoTerm, <<[n |-> "X", t |-> MkTerm("Integer", "1", <<>>)]>>, ""),
     MkAnswer("LeafAnswer", NoTerm,
              <<[n |-> "X", t |-> MkTerm("List", "", <<MkTerm("Integer", "1", <<>>),
                                                       MkTerm("Var", "_A", <<>>)>>)],
                [n |-> "Y", t |-> MkTerm("Compound", "f", <<MkTerm("Atom", "a", <<>>)>>)]>>, ""),
     MkAnswer("Err", NoTerm, <<>>, "diagnostic")}

\* The sequences over S of length n at most.
SeqsUpTo(S, n) == UNION {[1..k -> S] : k \in 0..n}

\* The service is not under test.
ServiceIdle == ServiceInit(FALSE)

\* Two Terms are about to be encoded.
InitTerm ==
    /\ ServiceIdle
    /\ term \in TermsOf(MaxDepth)
    /\ other \in ShallowTerms
    /\ encoded = <<>>
    /\ outcomes = <<>>
    /\ consumed = <<>>
    /\ results = <<>>
    /\ runPc = "idle"

\* term_to_json is applied to both Terms.
EncodeTerms ==
    /\ encoded = <<>>
    /\ term # NoTerm
    /\ encoded' = <<term_to_json(term), term_to_json(other)>>
    /\ UNCHANGED <<mainPc, listening, num_threads, permits, closed, waiters, flow,
                   task, response, healthReplies, healthUnderLoad, sigPhase,
                   path, machine, term, other, outcomes, consumed, results, runPc>>

NextTerm == EncodeTerms

SpecTerm == InitTerm /\ [][NextTerm]_vars

\* run_query has built its Machine, consulted the program and started the
\* query: the iterator will yield outcomes, results is empty.
InitRun ==
    /\ ServiceIdle
    /\ term = NoTerm
    /\ other = NoTerm
    /\ encoded = <<>>
    /\ outcomes \in SeqsUpTo(Answers, MaxOutcomes)
    /\ consumed = <<>>
    /\ results = <<>>
    /\ runPc = "loop"

\* One turn of the for loop: the next answer is matched and pushed.
RunNext ==
    /\ runPc = "loop"
    /\ Len(consumed) < Len(outcomes)
    /\ consumed' = Append(consumed, outcomes[Len(consumed) + 1])
    /\ results' = results \o answer_to_json(outcomes[Len(consumed) + 1])
    /\ UNCHANGED <<mainPc, listening, num_threads, permits, closed, waiters, flow,
                   task, response, healthReplies, healthUnderLoad, sigPhase,
                   path, machine, term, other, encoded, outcomes, runPc>>

\* The iterator is exhausted: Ok(results).
RunReturn ==
    /\ runPc = "loop"
    /\ Len(consumed) = Len(outcomes)
    /\ runPc' = "returned"
    /\ UNCHANGED <<mainPc, listening, num_threads, permits, closed, waiters, flow,
                   task, response, healthReplies, healthUnderLoad, sigPhase,
                   path, machine, term, other, encoded, outcomes, results, consumed>>

NextRun == RunNext \/ RunReturn

SpecRun == InitRun /\ [][NextRun]_vars

\* C1: at most num_threads run_query invocations execute at the same time,
\* under any interleaving of arrivals, grants, evaluations, crashes and
\* client disconnects.
C1_RunnersWithinBudget ==
    Cardinality({r \in Requests : task[r] = "running"}) <= num_threads

\* C2: a run_query invocation starts only after its request has acquired a
\* permit, and every executing invocation has its own permit outstanding.
C2_RunnerHoldsPermit ==
    \A r \in Requests :
        /\ task[r] # "none" => flow[r] \notin {"none", "receiving", "waiting"}
        /\ task[r] = "running" => flow[r] \in PermitFlows

\* C3: whenever every submitted request has completed (replied after a
\* success or a crash, or abandoned), all num_threads permits are available.
C3_NoPermitLeak ==
    (\A r \in Requests : flow[r] \notin OpenFlows)
        => (permits = num_threads /\ waiters = <<>>)

\* Both requests are over, one replied after a crash of its task and one was
\* abandoned after its task was spawned, and the pool is full again.
C3_Witness ==
    /\ \A r \in Clients : flow[r] \in {"replied", "dropped"}
    /\ \E r \in Clients : flow[r] = "replied" /\ task[r] = "panicked"
    /\ \E r \in Clients : flow[r] = "dropped" /\ task[r] # "none"
    /\ permits = num_threads

C5_HealthIndependent ==
    /\ []((Lifecycle = "Accepting" /\ healthReplies < MaxHealth) => ENABLED Health)
    /\ [][healthReplies' # healthReplies =>
            UNCHANGED <<mainPc, listening, num_threads, permits, closed, waiters,
                        flow, task, response>>]_vars

\* A /health reply was given while no permit was free and a query waited.
C5_Witness ==
    /\ healthUnderLoad
    /\ healthReplies > 0
    /\ permits = 0
    /\ waiters # <<>>
    /\ \E r \in Requests : flow[r] \in PermitFlows

\* C6 as stated: once Stopped, every request whose evaluation was in flight
\* at the termination signal and has terminated has received its response.
C6_ResponseBeforeStopped ==
    Lifecycle = "Stopped" =>
        \A r \in Requests :
            (sigPhase[r] = "evaluating" /\ task[r] \in {"returned", "panicked"})
                => response[r] # "none"

\* C6 amended: once Stopped, every request whose evaluation was in flight at
\* the termination signal, has terminated, and whose client did not
\* disconnect, has received its response.
C6_ResponseBeforeStoppedConnected ==
    Lifecycle = "Stopped" =>
        \A r \in Requests :
            (/\ sigPhase[r] = "evaluating"
             /\ task[r] \in {"returned", "panicked"}
             /\ flow[r] # "dropped")
                => (flow[r] = "replied" /\ response[r] # "none")

\* Stopped, after a request evaluating at the signal got its results.
C6_Witness ==
    /\ Lifecycle = "Stopped"
    /\ \E r \in Requests :
        /\ sigPhase[r] = "evaluating"
        /\ task[r] = "returned"
        /\ flow[r] = "replied"
        /\ response[r] = "results"

C8_NoAcquireAfterSignal ==
    [][\A r \in Requests :
          (flow[r] = "receiving" /\ flow'[r] \in {"waiting", "holding", "panicked"})
              => Lifecycle = "Accepting"]_vars

\* C8 amended: once Draining, no new request is accepted; only requests
\* accepted before the termination signal may begin acquiring, hold permits
\* and complete.
C8_NoNewRequestAfterSignal ==
    /\ [][\A r \in Requests :
             (flow[r] = "none" /\ flow'[r] # "none") => Lifecycle = "Accepting"]_vars
    /\ [](Lifecycle \in {"Draining", "Stopped"} =>
             \A r \in Requests :
                 flow[r] \in {"waiting", "holding", "joining"}
                     => sigPhase[r] \in {"receiving", "acquiring", "evaluating", "finishing"})

\* Draining, and a request whose body was still being read at the signal
\* holds a permit.
C8_Witness ==
    /\ Lifecycle = "Draining"
    /\ \E r \in Requests : sigPhase[r] = "receiving" /\ flow[r] \in PermitFlows

\* C9: when the blocking task of a request has panicked, the handler flow
\* that resumes returns a normal reply with an error body, does not panic
\* itself, leaves main where it is, and gives its permit back.
C9_CrashBecomesErrorReply ==
    /\ [](\A r \in Requests : task[r] = "panicked" => flow[r] # "panicked")
    /\ [][\A r \in Requests :
             (/\ task[r] = "panicked"
              /\ flow[r] = "joining"
              /\ flow'[r] \notin {"joining", "dropped"})
                 => /\ flow'[r] = "replied"
                    /\ response'[r] = "error"
                    /\ mainPc' = mainPc
                    /\ \/ (waiters = <<>> /\ permits' = permits + 1)
                       \/ /\ waiters # <<>>
                          /\ waiters' = Tail(waiters)
                          /\ flow'[Head(waiters)] = "holding"]_vars

\* A request whose task panicked was answered with an error body.
C9_Witness ==
    \E r \in Requests :
        task[r] = "panicked" /\ flow[r] = "replied" /\ response[r] = "error"

C11_Isolation ==
    /\ [](\A r \in Requests :
             /\ response[r] = "results" => task[r] = "returned"
             /\ response[r] = "error" => task[r] = "panicked")
    /\ [][\A r \in Requests :
             (task'[r] # task[r] /\ task'[r] \in {"returned", "panicked"})
                 => /\ mainPc' = mainPc
                    /\ listening' = listening
                    /\ \A q \in Requests \ {r} :
                          /\ flow'[q] = flow[q]
                          /\ task'[q] = task[q]
                          /\ response'[q] = response[q]]_vars

\* Still Accepting, one request got the error of its crashed evaluation and
\* another, evaluated by a later Machine, got its results.
C11_Witness ==
    /\ Lifecycle = "Accepting"
    /\ \E r, q \in Requests :
          /\ task[r] = "panicked" /\ response[r] = "error"
          /\ task[q] = "returned" /\ response[q] = "results"
          /\ machine[q] > machine[r]

\* C12: run_query returns the element-wise, order-preserving image of the
\* answers of the engine: as many entries as answers so far and, once it has
\* returned, as answers in all; entry i is {result: true}, {result: false},
\* {exception: encoded term}, the object of the encoded bindings, or
\* {error: diagnostic}, after the variant of answer i; an error answer does
\* not end the loop.
C12_ElementWiseImage ==
    /\ consumed = SubSeq(outcomes, 1, Len(consumed))
    /\ runPc = "returned" => consumed = outcomes
    /\ Len(results) = Len(consumed)
    /\ \A i \in 1..Len(results) :
          LET o == outcomes[i]
          IN results[i] =
                CASE o.k = "True" -> JObj(<< <<"result", JBool(TRUE)>> >>)
                  [] o.k = "False" -> JObj(<< <<"result", JBool(FALSE)>> >>)
                  [] o.k = "Exception" -> JObj(<< <<"exception", term_to_json(o.t)>> >>)
                  [] o.k = "LeafAnswer" ->
                        JObj([j \in 1..Len(o.b) |-> <<o.b[j].n, term_to_json(o.b[j].t)>>])
                  [] o.k = "Err" -> JObj(<< <<"error", JStr(o.e)>> >>)

\* run_query returned two entries for an engine error followed by a bound
\* answer.
C12_Witness ==
    /\ runPc = "returned"
    /\ Len(outcomes) = 2
    /\ outcomes[1].k = "Err"
    /\ outcomes[2].k = "LeafAnswer"
    /\ Len(results) = 2
    /\ results[1] = << <<"{", "">>, <<"key", "error">>, <<"str", "diagnostic">>, <<"}", "">> >>
    /\ results[2] = << <<"{", "">>, <<"key", "X">>, <<"str", "1">>, <<"}", "">> >>

\* C13 as stated: term_to_json is total and follows the mapping rules:
\* Integer and Rational give their decimal string, Float a JSON number, Atom
\* and String a JSON string, List the array of the encoded elements in order,
\* Compound the object of functor and encoded args, Var the object
\* {var: name}, and any other variant a JSON string.
C13_MappingRules ==
    encoded # <<>> =>
        encoded[1] =
            CASE term.k \in {"Integer", "Rational"} -> << <<"str", term.v>> >>
              [] term.k = "Float" -> << <<"num", term.v>> >>
              [] term.k \in {"Atom", "String"} -> << <<"str", term.v>> >>
              [] term.k = "List" ->
                    << <<"[", "">> >>
                        \o Flatten([i \in 1..Len(term.a) |-> term_to_json(term.a[i])])
                        \o << <<"]", "">> >>
              [] term.k = "Compound" ->
                    << <<"{", "">>, <<"key", "args">>, <<"[", "">> >>
                        \o Flatten([i \in 1..Len(term.a) |-> term_to_json(term.a[i])])
                        \o << <<"]", "">>, <<"key", "functor">>, <<"str", term.v>>,
                              <<"}", "">> >>
              [] term.k = "Var" ->
                    << <<"{", "">>, <<"key", "var">>, <<"str", term.v>>, <<"}", "">> >>
              [] OTHER -> << <<"str", term.v>> >>

\* C13 amended: the same rules, but a Float gives a JSON number when it is
\* finite and JSON null when it is not (NaN, inf, -inf).
C13_MappingRulesFinite ==
    encoded # <<>> =>
        /\ Len(encoded[1]) >= 1
        /\ encoded[1] =
            CASE term.k \in {"Integer", "Rational"} -> << <<"str", term.v>> >>
              [] term.k = "Float" ->
                    IF term.v \in {"NaN", "inf", "-inf"}
                    THEN << <<"null", "">> >>
                    ELSE << <<"num", term.v>> >>
              [] term.k \in {"Atom", "String"} -> << <<"str", term.v>> >>
              [] term.k = "List" ->
                    << <<"[", "">> >>
                        \o Flatten([i \in 1..Len(term.a) |-> term_to_json(term.a[i])])
                        \o << <<"]", "">> >>
              [] term.k = "Compound" ->
                    << <<"{", "">>, <<"key", "args">>, <<"[", "">> >>
                        \o Flatten([i \in 1..Len(term.a) |-> term_to_json(term.a[i])])
                        \o << <<"]", "">>, <<"key", "functor">>, <<"str", term.v>>,
                              <<"}", "">> >>
              [] term.k = "Var" ->
                    << <<"{", "">>, <<"key", "var">>, <<"str", term.v>>, <<"}", "">> >>
              [] OTHER -> << <<"str", term.v>> >>

\* f([X], a) was encoded as {args: [[{var: X}], "a"], functor: "f"}.
C13_Witness ==
    /\ term = MkTerm("Compound", "f",
                     <<MkTerm("List", "", <<MkTerm("Var", "X", <<>>)>>),
                       MkTerm("Atom", "a", <<>>)>>)
    /\ encoded # <<>>
    /\ encoded[1] = << <<"{", "">>, <<"key", "args">>, <<"[", "">>, <<"[", "">>,
                       <<"{", "">>, <<"key", "var">>, <<"str", "X">>, <<"}", "">>,
                       <<"]", "">>, <<"str", "a">>, <<"]", "">>,
                       <<"key", "functor">>, <<"str", "f">>, <<"}", "">> >>

RECURSIVE Recognised(_)
\* The Term is built from the variants term_to_json names.
Recognised(t) ==
    /\ t.k \in {"Integer", "Rational", "Float", "Atom", "String", "List",
                "Compound", "Var"}
    /\ \A i \in 1..Len(t.a) : Recognised(t.a[i])

RECURSIVE Blur(_)
\* The Term without what tells Integer, Rational, Atom and String of the
\* same text apart, and without which non-finite value a Float is.
Blur(t) ==
    CASE t.k \in {"Integer", "Rational", "Atom", "String"} -> MkTerm("Text", t.v, <<>>)
      [] t.k = "Float" /\ t.v \in NonFinite -> MkTerm("Float", "nonfinite", <<>>)
      [] OTHER -> MkTerm(t.k, t.v, [i \in 1..Len(t.a) |-> Blur(t.a[i])])

\* C14 as stated: two distinct Terms of the recognised variants have
\* distinct encodings.
C14_Lossless ==
    (encoded # <<>> /\ Recognised(term) /\ Recognised(other) /\ term # other)
        => encoded[1] # encoded[2]

\* C14 amended: two Terms of the recognised variants have the same encoding
\* only if they are equal up to which of Integer, Rational, Atom, String a
\* leaf of the same text is and up to which non-finite value a Float is.
C14_LosslessUpToText ==
    (encoded # <<>> /\ Recognised(term) /\ Recognised(other))
        => (encoded[1] = encoded[2] => Blur(term) = Blur(other))

\* Two lists of the same elements in another order, and a compound and the
\* list of its arguments, were told apart.
C14_Witness ==
    /\ encoded # <<>>
    /\ encoded[1] # encoded[2]
    /\ \/ /\ term = MkTerm("List", "", <<MkTerm("Atom", "a", <<>>), MkTerm("Integer", "7", <<>>)>>)
          /\ other = MkTerm("List", "", <<MkTerm("Integer", "7", <<>>), MkTerm("Atom", "a", <<>>)>>)
       \/ /\ term = MkTerm("Compound", "f", <<MkTerm("Var", "X", <<>>)>>)
          /\ other = MkTerm("List", "", <<MkTerm("Var", "X", <<>>)>>)

\* C15: permits are granted in FIFO order among waiters: a request that
\* queued behind another is not granted a permit while the other still
\* waits, and a request that arrives does not take a permit past the queue.
C15_FifoGrants ==
    [][/\ \A i, j \in 1..Len(waiters) :
             (i < j /\ flow'[waiters[j]] = "holding")
                 => flow'[waiters[i]] # "waiting"
       /\ \A r \in Requests :
             (flow[r] = "receiving" /\ flow'[r] = "holding") => waiters = <<>>]_vars

\* With one request served at once, a request that queued first holds the
\* permit while the request that queued behind it still waits.
C15_Witness ==
    \E a, b, c \in Requests :
        /\ path[c] = "fast"
        /\ path[a] = "queued"
        /\ path[b] = "queued_behind"
        /\ flow[a] \in PermitFlows
        /\ flow[b] = "waiting"

\* C16: in every Accepting state, whatever evaluations are running, the next
\* request can be accepted, an accepted request can enter the acquisition of
\* a permit, and the termination signal can be observed and moves the
\* lifecycle to Draining.
C16_NotStalled ==
    [](Lifecycle = "Accepting" =>
          /\ ENABLED (Signal /\ Lifecycle' = "Draining")
          /\ \A r \in Clients :
                (flow[r] = "none" /\ \A q \in Clients : q < r => flow[q] # "none")
                    => ENABLED Arrive(r)
          /\ \A r \in Requests : flow[r] = "receiving" => ENABLED BeginAcquire(r))

\* The signal was observed with an evaluation in flight for every permit and
\* a request in the acquisition; the evaluations still run, the request waits.
C16_Witness ==
    /\ mainPc = "drain"
    /\ Cardinality({r \in Requests : sigPhase[r] = "evaluating" /\ task[r] = "running"})
           = num_threads
    /\ \E r \in Requests :
          sigPhase[r] = "acquiring" /\ flow[r] = "waiting" /\ path[r] = "queued"

\* C17: every run_query invocation builds a Machine of its own: no two
\* invocations, running together or one after the other, use the same
\* Machine, a Machine exists exactly for the invocations that have started,
\* and an invocation keeps the Machine it built.
C17_FreshMachine ==
    /\ [](\A r, q \in Requests :
             (r # q /\ machine[r] # 0 /\ machine[q] # 0) => machine[r] # machine[q])
    /\ [](\A r \in Requests :
             machine[r] # 0 <=> task[r] \in {"running", "returned", "panicked"})
    /\ [][\A r \in Requests : machine[r] # 0 => machine'[r] = machine[r]]_vars

\* Two invocations run together on two Machines, and a third one started on
\* a third Machine after another had returned.
C17_Witness ==
    \E r, q, p \in Requests :
        /\ task[r] = "returned"
        /\ task[q] = "running"
        /\ task[p] = "running"
        /\ q # p
        /\ machine[p] > machine[q]
        /\ machine[q] > machine[r]

\* C18: a client disconnect does not interrupt a running evaluation: the
\* step that drops the flow leaves the evaluation running, and a running
\* evaluation is never cancelled; it only ends by itself.
C18_NoCancellation ==
    [][\A r \in Requests :
          task[r] = "running" =>
              /\ task'[r] \in {"running", "returned", "panicked"}
              /\ (flow[r] # "dropped" /\ flow'[r] = "dropped") => task'[r] = "running"]_vars

\* The flow of a request was dropped while it awaited its evaluation, and
\* the evaluation is running.
C18_Witness ==
    \E r \in Requests :
        /\ flow[r] = "dropped"
        /\ path[r] = "drop_joining"
        /\ task[r] = "running"
        /\ machine[r] # 0

\* C20: a request whose flow is dropped while it waits for a permit never
\* holds a permit or starts run_query afterwards; it leaves the queue, which
\* keeps only live waiters in their order, so that a freed permit goes to
\* the first of the waiters that are left.
C20_AbandonedWaiter ==
    /\ [](\A r \in Requests :
             path[r] = "drop_waiting" =>
                 /\ flow[r] = "dropped"
                 /\ task[r] = "none"
                 /\ machine[r] = 0)
    /\ [](\A i \in 1..Len(waiters) : flow[waiters[i]] = "waiting")
    /\ [][\A r \in Requests :
             (flow[r] = "waiting" /\ flow'[r] = "dropped")
                 => /\ waiters' = SelectSeq(waiters, LAMBDA x : x # r)
                    /\ permits' = permits
                    /\ \A q \in Requests \ {r} : flow'[q] = flow[q]]_vars
    /\ [][\A q \in Requests :
             (flow[q] \in PermitFlows /\ flow'[q] \notin PermitFlows /\ waiters # <<>>)
                 => /\ flow'[Head(waiters)] = "holding"
                    /\ waiters' = Tail(waiters)]_vars

\* A request that queued behind a waiter holds a permit after that waiter
\* was dropped from the queue.
C20_Witness ==
    \E a, b, c \in Requests :
        /\ path[c] = "fast"
        /\ path[a] = "drop_waiting"
        /\ path[b] = "queued_behind"
        /\ flow[b] \in PermitFlows

\* C19: under fair scheduling and with evaluations that terminate, every
\* request that waits for a permit is, unless its client disconnects,
\* eventually granted a permit and eventually answered; a request is
\* answered once, with a results body or an error body.
C19_StarvationFree ==
    /\ \A r \in Clients :
          (flow[r] = "waiting") ~> (flow[r] \in {"holding", "dropped"})
    /\ \A r \in Clients :
          (flow[r] = "waiting") ~>
              (flow[r] = "dropped"
                  \/ (flow[r] = "replied" /\ response[r] \in {"results", "error"}))
    /\ [](\A r \in Clients : response[r] # "none" => flow[r] = "replied")
    /\ [][\A r \in Clients : response[r] # "none" => response'[r] = response[r]]_vars

\* A request that had to wait in the queue got its results.
C19_Witness ==
    \E r \in Clients :
        /\ path[r] = "queued"
        /\ flow[r] = "replied"
        /\ response[r] = "results"
        /\ task[r] = "returned"

====
